---- MODULE Spec2Model ----
(***************************************************************************)
(* A model of sqlgen: the MySQL-to-Go type mapping, the identifier case    *)
(* conversions, the struct emitter, Generator.Generate with its overwrite  *)
(* policy, and the batch loop of main.                                     *)
(*                                                                         *)
(* Strings that the code only compares as a whole (raw type names, Go type *)
(* names, import paths) are TLA+ strings.  Strings that the code takes     *)
(* apart (table, column and package names) are sequences of bytes, since   *)
(* Go strings are byte sequences and the code slices and ranges over them. *)
(***************************************************************************)
EXTENDS Integers, Sequences, FiniteSets, TLC

VARIABLES
    caseIn,     \* SpecCase: the string handed to a case conversion
    caseFn,     \* SpecCase: which conversion ran last ("none" before any)
    caseOut,    \* SpecCase: the string it returned
    typeIn,     \* SpecType: [dataType, nullable, unsigned] of one column
    typeOut,    \* SpecType: the Go type mysqlTypeToGo returned ("" before)
    table,      \* SpecStruct: the schema.Table handed to generateStruct
    packageName,\* SpecStruct: Generator.packageName
    emitted,    \* SpecStruct: per run of generateStruct, the imports that
                \* collectImports returned and the text that was built
    g,          \* the Generator: [packageName, force, hasConfirm]
    dirExists,  \* whether the output directory exists
    files,      \* the files of the output directory, by file name
    lastCall,   \* the call of Generate made by the last step, if it made one
    pc,         \* SpecMain: where main is: "start", "loop", "done", "exit"
    tables,     \* SpecMain: the table list of the run
    idx,        \* SpecMain: index of the next table of the list
    report,     \* SpecMain: per attempted table, its name and what was printed
    exitCode    \* SpecMain: the exit code, -1 while running

vars == <<caseIn, caseFn, caseOut, typeIn, typeOut, table, packageName, emitted,
          g, dirExists, files, lastCall, pc, tables, idx, report, exitCode>>

caseVars == <<caseIn, caseFn, caseOut>>
typeVars == <<typeIn, typeOut>>
structVars == <<table, packageName, emitted>>
genVars == <<g, dirExists, files, lastCall>>
mainVars == <<pc, tables, idx, report, exitCode>>

(***************************************************************************)
(* Bounds                                                                  *)
(***************************************************************************)
\* longest identifier, in characters, handed to the case conversions
MaxLen == 3
\* most columns of a table handed to generateStruct
MaxCols == 2
\* most runs of generateStruct on the same table
MaxRuns == 2

(***************************************************************************)
(* Bytes, runes and UTF-8 (Go's string iteration, package unicode/utf8)    *)
(***************************************************************************)
Underscore == 95
RuneSelf == 128
RuneError == 65533

\* the characters identifiers are built from, each as its UTF-8 encoding:
\* a  b  A  _  -  e-acute (U+00E9)  E-acute (U+00C9)
Alphabet == { <<97>>, <<98>>, <<65>>, <<95>>, <<45>>, <<195, 169>>, <<195, 137>> }

IsCont(b) == b >= 128 /\ b <= 191

\* utf8.DecodeRuneInString(s[i:]) for encodings of up to three bytes: the
\* rune at byte index i and its width; an invalid byte is RuneError, width 1
DecodeRune(s, i) ==
    LET b0 == s[i] IN
    IF b0 < RuneSelf THEN [r |-> b0, w |-> 1]
    ELSE IF b0 >= 194 /\ b0 <= 223 /\ i + 1 <= Len(s) /\ IsCont(s[i + 1])
    THEN [r |-> (b0 - 192) * 64 + (s[i + 1] - 128), w |-> 2]
    ELSE IF b0 >= 224 /\ b0 <= 239 /\ i + 2 <= Len(s)
            /\ IsCont(s[i + 1]) /\ IsCont(s[i + 2])
            /\ (b0 = 224 => s[i + 1] >= 160)
            /\ (b0 = 237 => s[i + 1] <= 159)
    THEN [r |-> (b0 - 224) * 4096 + (s[i + 1] - 128) * 64 + (s[i + 2] - 128), w |-> 3]
    ELSE [r |-> RuneError, w |-> 1]

\* utf8.EncodeRune / strings.Builder.WriteRune
EncodeRune(r) ==
    IF r < RuneSelf THEN <<r>>
    ELSE IF r < 2048 THEN <<192 + (r \div 64), 128 + (r % 64)>>
    ELSE <<224 + (r \div 4096), 128 + ((r \div 64) % 64), 128 + (r % 64)>>

\* unicode.IsUpper, unicode.IsLower, unicode.ToLower and unicode.ToUpper on
\* the Basic Latin and Latin-1 Supplement letters
IsUpper(r) == (r >= 65 /\ r <= 90) \/ (r >= 192 /\ r <= 222 /\ r # 215)

IsLower(r) == (r >= 97 /\ r <= 122) \/ (r >= 224 /\ r <= 254 /\ r # 247)

ToLowerRune(r) == IF IsUpper(r) THEN r + 32 ELSE r

ToUpperRune(r) == IF IsLower(r) THEN r - 32 ELSE r

\* strings.ToUpper: every rune of s mapped by unicode.ToUpper; a byte that is
\* not valid UTF-8 decodes to RuneError and is written back as U+FFFD
RECURSIVE ToUpperFrom(_, _)
ToUpperFrom(s, i) ==
    IF i > Len(s) THEN <<>>
    ELSE LET d == DecodeRune(s, i)
         IN  EncodeRune(ToUpperRune(d.r)) \o ToUpperFrom(s, i + d.w)

ToUpper(s) == ToUpperFrom(s, 1)

\* strings.Split(s, "_"): the segments between underscores, empty ones kept
RECURSIVE SplitFrom(_, _, _)
SplitFrom(s, i, cur) ==
    IF i > Len(s) THEN <<cur>>
    ELSE IF s[i] = Underscore THEN <<cur>> \o SplitFrom(s, i + 1, <<>>)
    ELSE SplitFrom(s, i + 1, Append(cur, s[i]))

Split(s) == SplitFrom(s, 1, <<>>)

\* strings.Join(parts, "")
RECURSIVE Join(_)
Join(parts) == IF parts = <<>> THEN <<>> ELSE Head(parts) \o Join(Tail(parts))

(***************************************************************************)
(* Identifier case conversion                                              *)
(***************************************************************************)
\* the loop body of toCamelCase: parts[i][:1] is the first BYTE of the part
CamelPart(p) ==
    IF Len(p) > 0 THEN ToUpper(SubSeq(p, 1, 1)) \o SubSeq(p, 2, Len(p)) ELSE p

toCamelCase(s) ==
    LET parts == Split(s)
    IN  Join([i \in 1..Len(parts) |-> CamelPart(parts[i])])

\* toSnakeCase without the i > 0 test: an underscore before every uppercase
\* letter, the first one included
RECURSIVE SnakeAlwaysFrom(_, _)
SnakeAlwaysFrom(s, i) ==
    IF i > Len(s) THEN <<>>
    ELSE LET d == DecodeRune(s, i)
             out == IF IsUpper(d.r)
                    THEN <<Underscore>> \o EncodeRune(ToLowerRune(d.r))
                    ELSE EncodeRune(d.r)
         IN  out \o SnakeAlwaysFrom(s, i + d.w)

toSnakeCaseNoFirstTest(s) == SnakeAlwaysFrom(s, 1)

\* the loop of toSnakeCase: i is the byte index (from 1 here) of rune r
RECURSIVE SnakeFrom(_, _)
SnakeFrom(s, i) ==
    IF i > Len(s) THEN <<>>
    ELSE LET d == DecodeRune(s, i)
             out == IF IsUpper(d.r)
                    THEN (IF i > 1 THEN <<Underscore>> ELSE <<>>)
                             \o EncodeRune(ToLowerRune(d.r))
                    ELSE EncodeRune(d.r)
         IN  out \o SnakeFrom(s, i + d.w)

toSnakeCase(s) == SnakeFrom(s, 1)

(***************************************************************************)
(* Type mapping                                                            *)
(***************************************************************************)
\* the first switch without the unsigned branches, as before UNSIGNED support
BaseGoTypeSignedOnly(dataType, unsigned) ==
    CASE dataType = "tinyint" -> "int8"
      [] dataType = "smallint" -> "int16"
      [] dataType \in {"mediumint", "int", "integer"} -> "int32"
      [] dataType = "bigint" -> "int64"
      [] dataType = "float" -> "float32"
      [] dataType \in {"double", "real", "decimal", "numeric"} -> "float64"
      [] dataType \in {"binary", "varbinary", "blob", "tinyblob",
                       "mediumblob", "longblob", "bit"} -> "[]byte"
      [] dataType \in {"datetime", "timestamp", "date", "time"} -> "time.Time"
      [] dataType = "year" -> "int16"
      [] OTHER -> "string"

\* the first switch matching the type names whatever their case, as if the
\* name were lowered first: BIGINT, Int, DATETIME and BLOB find their cases
BaseGoTypeAnyCase(dataType, unsigned) ==
    CASE dataType = "tinyint" -> (IF unsigned THEN "uint8" ELSE "int8")
      [] dataType = "smallint" -> (IF unsigned THEN "uint16" ELSE "int16")
      [] dataType \in {"mediumint", "int", "integer", "Int"} ->
             (IF unsigned THEN "uint32" ELSE "int32")
      [] dataType \in {"bigint", "BIGINT"} ->
             (IF unsigned THEN "uint64" ELSE "int64")
      [] dataType = "float" -> "float32"
      [] dataType \in {"double", "real"} -> "float64"
      [] dataType \in {"decimal", "numeric"} -> "float64"
      [] dataType \in {"char", "varchar", "text", "tinytext", "mediumtext",
                       "longtext", "enum", "set"} -> "string"
      [] dataType \in {"binary", "varbinary", "blob", "tinyblob",
                       "mediumblob", "longblob", "BLOB"} -> "[]byte"
      [] dataType \in {"datetime", "timestamp", "date", "time", "DATETIME"} ->
             "time.Time"
      [] dataType = "year" -> (IF unsigned THEN "uint16" ELSE "int16")
      [] dataType = "bit" -> "[]byte"
      [] dataType = "json" -> "string"
      [] OTHER -> "string"

\* the first switch of mysqlTypeToGo
BaseGoType(dataType, unsigned) ==
    CASE dataType = "tinyint" -> (IF unsigned THEN "uint8" ELSE "int8")
      [] dataType = "smallint" -> (IF unsigned THEN "uint16" ELSE "int16")
      [] dataType \in {"mediumint", "int", "integer"} ->
             (IF unsigned THEN "uint32" ELSE "int32")
      [] dataType = "bigint" -> (IF unsigned THEN "uint64" ELSE "int64")
      [] dataType = "float" -> "float32"
      [] dataType \in {"double", "real"} -> "float64"
      [] dataType \in {"decimal", "numeric"} -> "float64"
      [] dataType \in {"char", "varchar", "text", "tinytext", "mediumtext",
                       "longtext", "enum", "set"} -> "string"
      [] dataType \in {"binary", "varbinary", "blob", "tinyblob",
                       "mediumblob", "longblob"} -> "[]byte"
      [] dataType \in {"datetime", "timestamp", "date", "time"} -> "time.Time"
      [] dataType = "year" -> (IF unsigned THEN "uint16" ELSE "int16")
      [] dataType = "bit" -> "[]byte"
      [] dataType = "json" -> "string"
      [] OTHER -> "string"

\* the second switch without the unsigned cases: a nullable unsigned integer
\* falls through and stays unwrapped
NullableGoTypeSignedOnly(goType) ==
    CASE goType \in {"int8", "int16", "int32", "int64"} -> "*" \o goType
      [] goType \in {"float32", "float64"} -> "*" \o goType
      [] goType = "string" -> "*string"
      [] goType = "[]byte" -> "[]byte"
      [] goType = "time.Time" -> "*time.Time"
      [] OTHER -> goType

\* the second switch of mysqlTypeToGo, taken when nullable
NullableGoType(goType) ==
    CASE goType \in {"int8", "int16", "int32", "int64",
                     "uint8", "uint16", "uint32", "uint64"} -> "*" \o goType
      [] goType \in {"float32", "float64"} -> "*" \o goType
      [] goType = "string" -> "*string"
      [] goType = "[]byte" -> "[]byte"
      [] goType = "time.Time" -> "*time.Time"
      [] OTHER -> goType

mysqlTypeToGo(dataType, nullable, unsigned) ==
    LET goType == BaseGoType(dataType, unsigned)
    IN  IF nullable THEN NullableGoType(goType) ELSE goType

\* the raw type names of the mapping table
SupportedTypes ==
    { "tinyint", "smallint", "mediumint", "int", "integer", "bigint",
      "float", "double", "real", "decimal", "numeric",
      "char", "varchar", "text", "tinytext", "mediumtext", "longtext",
      "enum", "set", "json",
      "binary", "varbinary", "blob", "tinyblob", "mediumblob", "longblob", "bit",
      "datetime", "timestamp", "date", "time", "year" }

\* raw type names outside the table: empty, upper and mixed case, with a
\* length suffix, with the UNSIGNED attribute, and plainly unknown
UnsupportedTypes ==
    { "", "BIGINT", "Int", "varchar(255)", "int unsigned", "unknown_type",
      "DATETIME", "BLOB", "geometry" }

RawTypes == SupportedTypes \cup UnsupportedTypes

(***************************************************************************)
(* Struct emission                                                         *)
(***************************************************************************)
\* a schema.Column as the generator reads it: Name is a byte string
Column(name, dataType, isNullable, isUnsigned) ==
    [Name |-> name, DataType |-> dataType,
     IsNullable |-> isNullable, IsUnsigned |-> isUnsigned]

\* one line of emitted text, by the format string that wrote it; name and
\* tag are byte strings, text is a Go type or an import path
Line(kind, name, text, tag) ==
    [kind |-> kind, name |-> name, text |-> text, tag |-> tag, pad |-> <<0, 0>>]

TimeTypes == {"datetime", "timestamp", "date", "time"}

\* the key set of the imports map as an earlier version built it: nullable
\* date and time columns also ask for database/sql
ImportKeysWithSql(t) ==
    { "time" : i \in { j \in 1..Len(t.Columns) : t.Columns[j].DataType \in TimeTypes } }
    \cup { "database/sql" : i \in { j \in 1..Len(t.Columns) :
                /\ t.Columns[j].IsNullable
                /\ t.Columns[j].DataType \in TimeTypes } }

\* the key set of the imports map after the first loop of collectImports
ImportKeys(t) ==
    { "time" : i \in { j \in 1..Len(t.Columns) : t.Columns[j].DataType \in TimeTypes } }

\* the orders in which a range over a map may deliver its keys
Orderings(keys) ==
    { o \in [1..Cardinality(keys) -> keys] :
        \A i, j \in 1..Cardinality(keys) : i # j => o[i] # o[j] }

\* the slices collectImports may return for a table
collectImports(t) == Orderings(ImportKeys(t))

\* the field line with the converted name in the tag
FieldLineConvertedTag(col) ==
    Line("field", toCamelCase(col.Name),
         mysqlTypeToGo(col.DataType, col.IsNullable, col.IsUnsigned),
         toCamelCase(col.Name))

\* the body of the column loop of generateStruct
FieldLine(col) ==
    Line("field", toCamelCase(col.Name),
         mysqlTypeToGo(col.DataType, col.IsNullable, col.IsUnsigned),
         col.Name)

\* the import block of generateStruct, written only for a non-empty slice
ImportBlock(imports) ==
    IF Len(imports) > 0
    THEN <<Line("import (", <<>>, "", <<>>)>>
         \o [i \in 1..Len(imports) |-> Line("import", <<>>, imports[i], <<>>)]
         \o <<Line(")", <<>>, "", <<>>)>>
    ELSE <<>>

\* generateStruct, given the slice collectImports returned
generateStruct(pkg, t, imports) ==
    <<Line("package", pkg, "", <<>>)>>
    \o ImportBlock(imports)
    \o <<Line("type", toCamelCase(t.Name), "", <<>>)>>
    \o [i \in 1..Len(t.Columns) |-> FieldLine(t.Columns[i])]
    \o <<Line("}", <<>>, "", <<>>)>>

(***************************************************************************)
(* The source formatter (go/format.Source), as far as the emitted text can *)
(* tell: it rejects text that does not parse, sorts the import block and   *)
(* aligns the field columns                                                *)
(***************************************************************************)
IsLetter(r) == IsUpper(r) \/ IsLower(r) \/ r = Underscore

IsDigit(r) == r >= 48 /\ r <= 57

RECURSIVE RunesOfFrom(_, _)
RunesOfFrom(s, i) ==
    IF i > Len(s) THEN <<>>
    ELSE LET d == DecodeRune(s, i) IN <<d.r>> \o RunesOfFrom(s, i + d.w)

RuneCount(s) == Len(RunesOfFrom(s, 1))

\* a Go identifier: a letter, then letters and digits
IsIdentifier(s) ==
    LET rs == RunesOfFrom(s, 1)
    IN  /\ Len(rs) > 0
        /\ IsLetter(rs[1])
        /\ \A i \in 2..Len(rs) : IsLetter(rs[i]) \/ IsDigit(rs[i])

\* a field line parses when it names a field, or, the name being empty, when
\* its type can stand alone as an embedded field
FieldParses(l) ==
    \/ IsIdentifier(l.name)
    \/ (l.name = <<>> /\ l.text # "[]byte")

Parses(code) ==
    \A i \in 1..Len(code) :
        /\ (code[i].kind = "package" =>
                IsIdentifier(code[i].name) /\ code[i].name # <<Underscore>>)
        /\ (code[i].kind = "type" => IsIdentifier(code[i].name))
        /\ (code[i].kind = "field" => FieldParses(code[i]))

\* import paths in lexicographic order, for the paths the generator knows
PathRank(path) == IF path = "database/sql" THEN 1 ELSE 2

Widest(ws) == IF ws = {} THEN 0 ELSE CHOOSE w \in ws : \A v \in ws : v <= w

FormatLines(code) ==
    LET imps == { i \in 1..Len(code) : code[i].kind = "import" }
        first == IF imps = {} THEN 0 ELSE CHOOSE i \in imps : \A j \in imps : i <= j
        sorted == SortSeq([k \in 1..Cardinality(imps) |-> code[first + k - 1]],
                          LAMBDA a, b : PathRank(a.text) < PathRank(b.text))
        fields == { i \in 1..Len(code) : code[i].kind = "field" }
        nameW == Widest({ RuneCount(code[i].name) : i \in fields })
        typeW == Widest({ Len(code[i].text) : i \in fields })
    IN  [i \in 1..Len(code) |->
            IF i \in imps THEN sorted[i - first + 1]
            ELSE IF i \in fields
            THEN [code[i] EXCEPT !.pad = <<nameW - RuneCount(code[i].name),
                                           typeW - Len(code[i].text)>>]
            ELSE code[i]]

\* format.Source: the formatted text, or an error
FormatSource(code) ==
    IF Parses(code) THEN [ok |-> TRUE, text |-> FormatLines(code)]
    ELSE [ok |-> FALSE, text |-> <<>>]

(***************************************************************************)
(* The output directory                                                    *)
(***************************************************************************)
\* a path that os.Stat reports as missing, and a file with its lines
Absent == [exists |-> FALSE, lines |-> <<>>]

FileWith(lines) == [exists |-> TRUE, lines |-> lines]

\* a file that was in the directory before the run ("existing content")
ExistingContent == FileWith(<<Line("text", <<>>, "existing content", <<>>)>>)

\* ".go"
GoSuffix == <<46, 103, 111>>

FileName(tableName) == toSnakeCase(tableName) \o GoSuffix

\* what os.WriteFile may do with data: write it all, fail to open the file
\* (nothing changes), or fail after the file was created or truncated and
\* only the first kept lines were written
WriteOutcomes(data) ==
    { [kind |-> "ok", kept |-> Len(data)], [kind |-> "open_failed", kept |-> 0] }
    \cup { [kind |-> "short", kept |-> k] : k \in 0..(Len(data) - 1) }

\* the write opening the file for appending instead of truncating it
WriteFileAppending(fs, path, data, w) ==
    CASE w.kind = "ok" -> [fs EXCEPT ![path] = FileWith(fs[path].lines \o data)]
      [] w.kind = "short" ->
             [fs EXCEPT ![path] = FileWith(fs[path].lines \o SubSeq(data, 1, w.kept))]
      [] OTHER -> fs

WriteFile(fs, path, data, w) ==
    CASE w.kind = "ok" -> [fs EXCEPT ![path] = FileWith(data)]
      [] w.kind = "short" -> [fs EXCEPT ![path] = FileWith(SubSeq(data, 1, w.kept))]
      [] OTHER -> fs

(***************************************************************************)
(* Generator.Generate                                                      *)
(***************************************************************************)
NoError == [kind |-> "nil", code |-> <<>>]

ErrSkipped == [kind |-> "skipped", code |-> <<>>]

MkdirError == [kind |-> "mkdir", code |-> <<>>]

\* the format error without the generated code in its message
FormatErrorWithoutCode(code) == [kind |-> "format", code |-> <<>>]

\* "failed to format code: ...\ngenerated code:\n" followed by the code
FormatError(code) == [kind |-> "format", code |-> code]

WriteError == [kind |-> "write", code |-> <<>>]

\* the guard around the call of confirmFunc without the test for a
\* configured function
AsksConfirmWithoutFunc(gen, exists) == exists /\ ~gen.force

\* the guard around the call of confirmFunc, asking even under force
AsksConfirmIgnoringForce(gen, exists) == exists /\ gen.hasConfirm

\* the guard around the call of confirmFunc, asking for a missing file too
AsksConfirmAlways(gen, exists) == ~gen.force /\ gen.hasConfirm

\* the guard around the call of confirmFunc: os.Stat found the file, force is
\* not set and a confirmFunc is configured
AsksConfirm(gen, exists) == exists /\ ~gen.force /\ gen.hasConfirm

\* what the environment decides during one call: whether MkdirAll succeeds
\* when the directory is missing, the order of the imports map, what the
\* configured confirmFunc answers when asked, and how the write goes if the
\* text formats (a decision that cannot matter is fixed)
GenerateEnvs(gen, t, dir, fs) ==
    UNION { LET formatted == FormatSource(generateStruct(gen.packageName, t, imps))
            IN  { [mkdirOk |-> m, imports |-> imps, answer |-> a, write |-> w] :
                    m \in (IF dir THEN {TRUE} ELSE BOOLEAN),
                    a \in (IF gen.hasConfirm THEN BOOLEAN ELSE {TRUE}),
                    w \in (IF formatted.ok THEN WriteOutcomes(formatted.text)
                           ELSE {[kind |-> "ok", kept |-> 0]}) } :
            imps \in collectImports(t) }

\* Generate(table) in directory state dir, fs under the decisions env: the
\* error returned, the directory afterwards, and the calls of confirmFunc
Generate(gen, t, dir, fs, env) ==
    IF ~dir /\ ~env.mkdirOk
    THEN [err |-> MkdirError, dir |-> dir, files |-> fs, confirmCalls |-> 0]
    ELSE
    LET code == generateStruct(gen.packageName, t, env.imports)
        formatted == FormatSource(code)
        path == FileName(t.Name)
        exists == fs[path].exists
    IN  IF ~formatted.ok
        THEN [err |-> FormatError(code), dir |-> TRUE, files |-> fs,
              confirmCalls |-> 0]
        ELSE IF AsksConfirm(gen, exists) /\ ~env.answer
        THEN [err |-> ErrSkipped, dir |-> TRUE, files |-> fs, confirmCalls |-> 1]
        ELSE [err |-> IF env.write.kind = "ok" THEN NoError ELSE WriteError,
              dir |-> TRUE,
              files |-> WriteFile(fs, path, formatted.text, env.write),
              confirmCalls |-> IF AsksConfirm(gen, exists) THEN 1 ELSE 0]

(***************************************************************************)
(* The database and the tables handed to Generate                          *)
(***************************************************************************)
\* the tables of the database (a_b, aB, a-b) with their columns, and b, a
\* name the database does not have
ABTable == <<97, 95, 98>>
CamelTable == <<97, 66>>
DashTable == <<97, 45, 98>>
UnknownTable == <<98>>

DatabaseTables == { ABTable, CamelTable, DashTable }

AllTableNames == DatabaseTables \cup { UnknownTable }

\* a row of information_schema.COLUMNS: COLUMN_NAME, DATA_TYPE, IS_NULLABLE,
\* and whether the column is declared UNSIGNED (which COLUMN_TYPE tells and
\* DATA_TYPE does not)
Row(name, dataType, isNullable, unsigned) ==
    [name |-> name, dataType |-> dataType, isNullable |-> isNullable,
     unsigned |-> unsigned]

\* the rows the query of GetTableSchema returns for a table, in ordinal
\* order; no rows for a table the database does not have
DatabaseRows(name) ==
    CASE name = ABTable ->
             << Row(<<97, 95, 98>>, "bigint", "NO", TRUE),
                Row(<<98>>, "datetime", "YES", FALSE) >>
      [] name = CamelTable -> << Row(<<98>>, "varchar", "YES", FALSE) >>
      [] name = DashTable -> << Row(<<97>>, "int", "NO", FALSE) >>
      [] OTHER -> << >>

\* the body of the rows loop of GetTableSchema: the query selects and Scan
\* fills Name, DataType, IS_NULLABLE, ColumnKey, Extra and Comment; nothing of
\* the row tells the sign, and the flag the emitter reads is never set
ScanColumn(row) ==
    Column(row.name, row.dataType, row.isNullable = "YES", FALSE)

\* Reader.GetTableSchema when the query succeeds
GetTableSchema(name) ==
    LET rows == DatabaseRows(name)
    IN  [Name |-> name, Columns |-> [i \in 1..Len(rows) |-> ScanColumn(rows[i])]]

Paths == { FileName(n) : n \in AllTableNames }

\* the output directory before the run: missing, or there with any of the
\* target files already in it
InitialDirectories ==
    { [dir |-> FALSE, files |-> [p \in Paths |-> Absent]] }
    \cup { [dir |-> TRUE, files |-> f] : f \in [Paths -> {Absent, ExistingContent}] }

NoCall ==
    [called |-> FALSE, name |-> <<>>, err |-> NoError, confirmCalls |-> 0,
     answer |-> FALSE, before |-> Absent,
     write |-> [kind |-> "ok", kept |-> 0]]

\* the record of a call of Generate: the decisions of env and the result res
CallRecord(gen, t, fs, env, res) ==
    [called |-> TRUE, name |-> t.Name, err |-> res.err,
     confirmCalls |-> res.confirmCalls, answer |-> env.answer,
     before |-> fs[FileName(t.Name)],
     write |-> env.write]

(***************************************************************************)
(* Values of the variables a specification does not use                    *)
(***************************************************************************)
CaseIdle ==
    /\ caseIn = <<>>
    /\ caseFn = "none"
    /\ caseOut = <<>>

TypeIdle ==
    /\ typeIn = [dataType |-> "", nullable |-> FALSE, unsigned |-> FALSE]
    /\ typeOut = ""

StructIdle ==
    /\ table = [Name |-> <<>>, Columns |-> <<>>]
    /\ packageName = <<>>
    /\ emitted = <<>>

GenIdle ==
    /\ g = [packageName |-> <<>>, force |-> FALSE, hasConfirm |-> FALSE]
    /\ dirExists = FALSE
    /\ files = [p \in Paths |-> Absent]
    /\ lastCall = NoCall

MainIdle ==
    /\ pc = "idle"
    /\ tables = <<>>
    /\ idx = 0
    /\ report = <<>>
    /\ exitCode = -1

(***************************************************************************)
(* SpecStruct: generateStruct run repeatedly on one table                  *)
(***************************************************************************)
\* a_b, b, e-acute and aB
ColumnNames == { <<97, 95, 98>>, <<98>>, <<195, 169>>, <<97, 66>> }

ColumnTypes == { "bigint", "varchar", "datetime", "date", "blob" }

Columns ==
    { Column(n, ty, nu, un) : n \in ColumnNames, ty \in ColumnTypes,
                              nu \in BOOLEAN, un \in {FALSE} }
    \cup { Column(n, "bigint", nu, TRUE) : n \in ColumnNames, nu \in BOOLEAN }

RECURSIVE ColumnLists(_)
ColumnLists(n) ==
    IF n = 0 THEN { <<>> }
    ELSE LET shorter == ColumnLists(n - 1)
         IN  shorter \cup { Append(cs, c) : cs \in shorter, c \in Columns }

\* a_b and aB
TableNames == { <<97, 95, 98>>, <<97, 66>> }

\* a and a-b
PackageNames == { <<97>>, <<97, 45, 98>> }

InitStruct ==
    /\ table \in [Name : TableNames, Columns : ColumnLists(MaxCols)]
    /\ packageName \in PackageNames
    /\ emitted = <<>>
    /\ CaseIdle /\ TypeIdle /\ GenIdle /\ MainIdle

CallGenerateStruct ==
    /\ Len(emitted) < MaxRuns
    /\ \E imports \in collectImports(table) :
          emitted' = Append(emitted,
                            [imports |-> imports,
                             code |-> generateStruct(packageName, table, imports)])
    /\ UNCHANGED <<table, packageName, caseVars, typeVars, genVars, mainVars>>

NextStruct == CallGenerateStruct

SpecStruct == InitStruct /\ [][NextStruct]_vars

(***************************************************************************)
(* SpecType: mysqlTypeToGo applied to every column type                    *)
(***************************************************************************)
TypeInputs == [dataType : RawTypes, nullable : BOOLEAN, unsigned : BOOLEAN]

InitType ==
    /\ typeIn \in TypeInputs
    /\ typeOut = ""
    /\ CaseIdle /\ StructIdle /\ GenIdle /\ MainIdle

CallMysqlTypeToGo ==
    /\ typeOut = ""
    /\ typeOut' = mysqlTypeToGo(typeIn.dataType, typeIn.nullable, typeIn.unsigned)
    /\ UNCHANGED <<typeIn, caseVars, structVars, genVars, mainVars>>

NextType == CallMysqlTypeToGo

SpecType == InitType /\ [][NextType]_vars

(***************************************************************************)
(* SpecCase: the case conversions applied to every short identifier        *)
(***************************************************************************)
RECURSIVE StringsUpTo(_)
StringsUpTo(n) ==
    IF n = 0 THEN { <<>> }
    ELSE LET shorter == StringsUpTo(n - 1)
         IN  shorter \cup { s \o c : s \in shorter, c \in Alphabet }

Identifiers == StringsUpTo(MaxLen)

InitCase ==
    /\ caseIn \in Identifiers
    /\ caseFn = "none"
    /\ caseOut = <<>>
    /\ TypeIdle /\ StructIdle /\ GenIdle /\ MainIdle

CallToCamelCase ==
    /\ caseFn = "none"
    /\ caseFn' = "toCamelCase"
    /\ caseOut' = toCamelCase(caseIn)
    /\ UNCHANGED <<caseIn, typeVars, structVars, genVars, mainVars>>

CallToSnakeCase ==
    /\ caseFn = "none"
    /\ caseFn' = "toSnakeCase"
    /\ caseOut' = toSnakeCase(caseIn)
    /\ UNCHANGED <<caseIn, typeVars, structVars, genVars, mainVars>>

\* toSnakeCase applied to the result of toCamelCase(caseIn)
CallToSnakeCaseOfCamelCase ==
    /\ caseFn = "toCamelCase"
    /\ caseFn' = "toSnakeCase(toCamelCase)"
    /\ caseOut' = toSnakeCase(caseOut)
    /\ UNCHANGED <<caseIn, typeVars, structVars, genVars, mainVars>>

NextCase ==
    \/ CallToCamelCase
    \/ CallToSnakeCase
    \/ CallToSnakeCaseOfCamelCase

SpecCase == InitCase /\ [][NextCase]_vars

(***************************************************************************)
(* SpecGen: Generate called repeatedly on one Generator, as the tests do   *)
(***************************************************************************)
\* New(packageName, outputDir, opts...): force and confirmFunc as the options
\* WithForce and WithConfirmFunc set them, or left at their zero values
Generators == [packageName : PackageNames, force : BOOLEAN, hasConfirm : BOOLEAN]

GenTables == { GetTableSchema(n) : n \in AllTableNames }

InitGen ==
    /\ g \in Generators
    /\ \E d \in InitialDirectories : dirExists = d.dir /\ files = d.files
    /\ lastCall = NoCall
    /\ CaseIdle /\ TypeIdle /\ StructIdle /\ MainIdle

CallGenerate ==
    \E t \in GenTables :
        \E env \in GenerateEnvs(g, t, dirExists, files) :
            LET res == Generate(g, t, dirExists, files, env)
            IN  /\ dirExists' = res.dir
                /\ files' = res.files
                /\ lastCall' = CallRecord(g, t, files, env, res)
                /\ UNCHANGED <<g, caseVars, typeVars, structVars, mainVars>>

NextGen == CallGenerate

SpecGen == InitGen /\ [][NextGen]_vars

(***************************************************************************)
(* SpecMain: one run of the command                                        *)
(***************************************************************************)
\* the orders in which GetTables may return the tables of the database (the
\* query has no ORDER BY)
TableLists ==
    { l \in [1..Cardinality(DatabaseTables) -> DatabaseTables] :
        \A i, j \in 1..Cardinality(DatabaseTables) : i # j => l[i] # l[j] }

\* the line main prints for a table, as the older main did: ErrSkipped is
\* an error like any other
ReportOfErrorOnly(err) ==
    IF err.kind = "nil" THEN "generated" ELSE "error"

\* the line main prints for a table, by the error Generate returned
ReportOf(err) ==
    IF err.kind = "nil" THEN "generated"
    ELSE IF err.kind = "skipped" THEN "skipped"
    ELSE "error"

InitMain ==
    /\ pc = "start"
    /\ g = [packageName |-> <<>>, force |-> FALSE, hasConfirm |-> FALSE]
    /\ \E d \in InitialDirectories : dirExists = d.dir /\ files = d.files
    /\ lastCall = NoCall
    /\ tables = <<>>
    /\ idx = 1
    /\ report = <<>>
    /\ exitCode = -1
    /\ CaseIdle /\ TypeIdle /\ StructIdle

\* an error message on stderr, then os.Exit(1)
Exit1(message) ==
    /\ pc' = "exit"
    /\ exitCode' = 1
    /\ report' = Append(report, [name |-> <<>>, line |-> message])
    /\ UNCHANGED <<tables, idx, genVars, caseVars, typeVars, structVars>>

\* flag.Parse does not return: the flag set of the command line exits on
\* error, with code 2 after the message and the usage for an undefined flag
\* or a value that does not parse (-P abc)
MainFlagError ==
    /\ pc = "start"
    /\ pc' = "exit"
    /\ exitCode' = 2
    /\ report' = Append(report, [name |-> <<>>, line |-> "flag error"])
    /\ UNCHANGED <<tables, idx, genVars, caseVars, typeVars, structVars>>

\* flag.Parse meets -h or -help: the usage is printed and the run ends with
\* code 0
MainHelp ==
    /\ pc = "start"
    /\ pc' = "exit"
    /\ exitCode' = 0
    /\ report' = Append(report, [name |-> <<>>, line |-> "usage"])
    /\ UNCHANGED <<tables, idx, genVars, caseVars, typeVars, structVars>>

\* -db is missing
MainNoDatabase == pc = "start" /\ Exit1("Error: -db is required")

\* -o is missing
MainNoOutput == pc = "start" /\ Exit1("Error: -o is required")

\* schema.NewReader fails
MainConnectFails == pc = "start" /\ Exit1("Error connecting to database")

\* no -table, and reader.GetTables fails
MainGetTablesFails == pc = "start" /\ Exit1("Error getting tables")

\* the flags are there, the connection is up and the table list is known:
\* the one table of -table, or the list GetTables returned; the generator is
\* built with the -f flag and confirmOverwrite
MainStartLoop ==
    /\ pc = "start"
    /\ \E pkg \in PackageNames, force \in BOOLEAN :
          g' = [packageName |-> pkg, force |-> force, hasConfirm |-> TRUE]
    /\ \/ \E name \in AllTableNames : tables' = <<name>>
       \/ \E l \in TableLists : tables' = l
    /\ pc' = "loop"
    /\ UNCHANGED <<idx, report, exitCode, dirExists, files, lastCall,
                   caseVars, typeVars, structVars>>

\* one iteration of the loop, GetTableSchema failing and the run giving up
\* (the error handled like a failing GetTables)
MainSchemaFailsAborts ==
    /\ pc = "loop"
    /\ idx <= Len(tables)
    /\ Exit1("schema_error")

\* one iteration of the loop, GetTableSchema failing
MainSchemaFails ==
    /\ pc = "loop"
    /\ idx <= Len(tables)
    /\ report' = Append(report, [name |-> tables[idx], line |-> "schema_error"])
    /\ idx' = idx + 1
    /\ lastCall' = NoCall
    /\ UNCHANGED <<pc, tables, exitCode, g, dirExists, files,
                   caseVars, typeVars, structVars>>

\* one iteration of the loop, GetTableSchema succeeding: Generate is called
\* and its result printed
MainGenerate ==
    /\ pc = "loop"
    /\ idx <= Len(tables)
    /\ LET t == GetTableSchema(tables[idx])
       IN  \E env \in GenerateEnvs(g, t, dirExists, files) :
               LET res == Generate(g, t, dirExists, files, env)
               IN  /\ dirExists' = res.dir
                   /\ files' = res.files
                   /\ lastCall' = CallRecord(g, t, files, env, res)
                   /\ report' = Append(report, [name |-> tables[idx],
                                                line |-> ReportOf(res.err)])
    /\ idx' = idx + 1
    /\ UNCHANGED <<pc, tables, exitCode, g, caseVars, typeVars, structVars>>

\* after the last table, the exit code telling whether a table failed
MainDoneCountingErrors ==
    /\ pc = "loop"
    /\ idx > Len(tables)
    /\ pc' = "done"
    /\ exitCode' = (IF \E i \in 1..Len(report) :
                          report[i].line \in {"error", "schema_error"}
                    THEN 1 ELSE 0)
    /\ lastCall' = NoCall
    /\ UNCHANGED <<tables, idx, report, g, dirExists, files,
                   caseVars, typeVars, structVars>>

\* after the last table: "Done!", exit code 0
MainDone ==
    /\ pc = "loop"
    /\ idx > Len(tables)
    /\ pc' = "done"
    /\ exitCode' = 0
    /\ lastCall' = NoCall
    /\ UNCHANGED <<tables, idx, report, g, dirExists, files,
                   caseVars, typeVars, structVars>>

NextMain ==
    \/ MainFlagError
    \/ MainHelp
    \/ MainNoDatabase
    \/ MainNoOutput
    \/ MainConnectFails
    \/ MainGetTablesFails
    \/ MainStartLoop
    \/ MainSchemaFails
    \/ MainGenerate
    \/ MainDone

SpecMain == InitMain /\ [][NextMain]_vars

\* main is sequential code: every call it makes returns (the database and the
\* standard input answer), so a run that can take a step takes it
SpecMainFair == SpecMain /\ WF_vars(NextMain)

(***************************************************************************)
(* Properties of the type mapping (checked under SpecType)                 *)
(***************************************************************************)
IntegerFamilies ==
    { "tinyint", "smallint", "mediumint", "int", "integer", "bigint", "year" }

\* the mapping table of the documentation, as <<raw type, signed, unsigned>>
MappingTable ==
    { <<"tinyint", "int8", "uint8">>,
      <<"smallint", "int16", "uint16">>, <<"year", "int16", "uint16">>,
      <<"mediumint", "int32", "uint32">>, <<"int", "int32", "uint32">>,
      <<"integer", "int32", "uint32">>,
      <<"bigint", "int64", "uint64">>,
      <<"float", "float32", "float32">>,
      <<"double", "float64", "float64">>, <<"real", "float64", "float64">>,
      <<"decimal", "float64", "float64">>, <<"numeric", "float64", "float64">>,
      <<"char", "string", "string">>, <<"varchar", "string", "string">>,
      <<"text", "string", "string">>, <<"tinytext", "string", "string">>,
      <<"mediumtext", "string", "string">>, <<"longtext", "string", "string">>,
      <<"enum", "string", "string">>, <<"set", "string", "string">>,
      <<"json", "string", "string">>,
      <<"binary", "[]byte", "[]byte">>, <<"varbinary", "[]byte", "[]byte">>,
      <<"blob", "[]byte", "[]byte">>, <<"tinyblob", "[]byte", "[]byte">>,
      <<"mediumblob", "[]byte", "[]byte">>, <<"longblob", "[]byte", "[]byte">>,
      <<"bit", "[]byte", "[]byte">>,
      <<"datetime", "time.Time", "time.Time">>,
      <<"timestamp", "time.Time", "time.Time">>,
      <<"date", "time.Time", "time.Time">>, <<"time", "time.Time", "time.Time">> }

TypeCalled == typeOut # ""

\* C1: for a supported raw type and nullable = false, mysqlTypeToGo returns
\* the base type of the mapping table for the given unsigned flag, and the
\* flag changes the result only for the integer families and year.
C1_BaseTypeOfTable ==
    (TypeCalled /\ ~typeIn.nullable /\ typeIn.dataType \in SupportedTypes) =>
        /\ \E row \in MappingTable :
              /\ row[1] = typeIn.dataType
              /\ typeOut = (IF typeIn.unsigned THEN row[3] ELSE row[2])
        /\ (typeOut # mysqlTypeToGo(typeIn.dataType, FALSE, ~typeIn.unsigned))
              <=> (typeIn.dataType \in IntegerFamilies)

C1_Witness ==
    /\ typeIn = [dataType |-> "bigint", nullable |-> FALSE, unsigned |-> TRUE]
    /\ typeOut = "uint64"

\* C2: for every raw type and unsigned flag, the nullable result is "*"
\* followed by the non-nullable result, except that []byte stays []byte.
C2_NullableWrapsExceptBytes ==
    (TypeCalled /\ typeIn.nullable) =>
        LET plain == mysqlTypeToGo(typeIn.dataType, FALSE, typeIn.unsigned)
        IN  typeOut = (IF plain = "[]byte" THEN "[]byte" ELSE "*" \o plain)

C2_Witness ==
    /\ typeIn = [dataType |-> "smallint", nullable |-> TRUE, unsigned |-> TRUE]
    /\ typeOut = "*uint16"

(***************************************************************************)
(* Properties of the case conversions (checked under SpecCase)             *)
(***************************************************************************)
\* the characters (runes) of a string, in order
RECURSIVE RunesFrom(_, _)
RunesFrom(s, i) ==
    IF i > Len(s) THEN <<>>
    ELSE LET d == DecodeRune(s, i) IN <<d.r>> \o RunesFrom(s, i + d.w)

Runes(s) == RunesFrom(s, 1)

RECURSIVE EncodeRunes(_)
EncodeRunes(rs) ==
    IF rs = <<>> THEN <<>> ELSE EncodeRune(Head(rs)) \o EncodeRunes(Tail(rs))

HasUnderscore(s) == \E i \in 1..Len(s) : s[i] = Underscore

HasUpper(s) == \E i \in 1..Len(Runes(s)) : IsUpper(Runes(s)[i])

AllUpper(s) == \A i \in 1..Len(Runes(s)) : IsUpper(Runes(s)[i])

\* a segment with its first character uppercased and the rest unchanged
CapitalizedSegment(p) ==
    IF p = <<>> THEN <<>>
    ELSE LET rs == Runes(p)
         IN  EncodeRune(ToUpperRune(Head(rs))) \o EncodeRunes(Tail(rs))

CamelByCharacter(s) ==
    LET parts == Split(s)
    IN  Join([i \in 1..Len(parts) |-> CapitalizedSegment(parts[i])])

\* C7: toCamelCase uppercases the first character of each non-empty
\* underscore-separated segment, leaves the rest of the segment unchanged and
\* concatenates the segments; the empty string maps to the empty string, an
\* underscore-free all-uppercase input is returned unchanged, and the output
\* contains no underscore.
C7_CamelCaseByCharacter ==
    (caseFn = "toCamelCase") =>
        /\ caseOut = CamelByCharacter(caseIn)
        /\ (caseIn = <<>> => caseOut = <<>>)
        /\ ((~HasUnderscore(caseIn) /\ AllUpper(caseIn)) => caseOut = caseIn)
        /\ ~HasUnderscore(caseOut)

\* each character of the input mapped as the description of toSnakeCase says
RECURSIVE SnakeByCharacter(_, _)
SnakeByCharacter(rs, k) ==
    IF k > Len(rs) THEN <<>>
    ELSE (IF IsUpper(rs[k])
          THEN (IF k = 1 THEN <<>> ELSE <<Underscore>>) \o EncodeRune(rs[k] + 32)
          ELSE EncodeRune(rs[k]))
         \o SnakeByCharacter(rs, k + 1)

StartsWithUnderscore(s) == Len(s) > 0 /\ s[1] = Underscore

\* C8: toSnakeCase maps an uppercase letter that is not the first character to
\* an underscore plus its lowercase form, an uppercase first character to its
\* lowercase form alone, and copies every other character; the output has no
\* uppercase letter, gains no leading underscore, and "" maps to "".
C8_SnakeCaseByCharacter ==
    (caseFn = "toSnakeCase") =>
        /\ caseOut = SnakeByCharacter(Runes(caseIn), 1)
        /\ ~HasUpper(caseOut)
        /\ (StartsWithUnderscore(caseOut) <=> StartsWithUnderscore(caseIn))
        /\ (caseIn = <<>> => caseOut = <<>>)

C8_Witness ==
    /\ caseFn = "toSnakeCase"
    /\ caseIn = <<65, 65, 98>>
    /\ caseOut = <<97, 95, 97, 98>>

(***************************************************************************)
(* Properties of the struct emission (checked under SpecStruct)            *)
(***************************************************************************)
LinesOfKind(code, kind) == SelectSeq(code, LAMBDA l : l.kind = kind)

ImportsOf(code) ==
    LET ls == LinesOfKind(code, "import") IN [i \in 1..Len(ls) |-> ls[i].text]

HasTimeColumn(t) ==
    \E i \in 1..Len(t.Columns) : t.Columns[i].DataType \in TimeTypes

\* C6: the declaration is named toCamelCase(table.Name) and has exactly one
\* field per column, in column order: the i-th field has the name
\* toCamelCase(col.Name), the type mysqlTypeToGo of the i-th column and a db
\* tag holding the column's name unchanged; a table without columns gives an
\* empty body and no import block.
C6_FieldPerColumnInOrder ==
    \A r \in 1..Len(emitted) :
        LET code == emitted[r].code
            fields == LinesOfKind(code, "field")
            types == LinesOfKind(code, "type")
            n == Len(table.Columns)
        IN  /\ Len(types) = 1
            /\ types[1].name = toCamelCase(table.Name)
            /\ Len(fields) = n
            /\ \A i \in 1..n :
                  LET col == table.Columns[i]
                  IN  /\ fields[i].name = toCamelCase(col.Name)
                      /\ fields[i].text =
                            mysqlTypeToGo(col.DataType, col.IsNullable, col.IsUnsigned)
                      /\ fields[i].tag = col.Name
            /\ (n = 0 => /\ Len(code) = 3
                         /\ code[1].kind = "package"
                         /\ code[2].kind = "type"
                         /\ code[3].kind = "}")

C6_Witness ==
    /\ Len(emitted) > 0
    /\ Len(table.Columns) = 2
    /\ table.Columns[1].Name = <<97, 95, 98>>
    /\ table.Columns[2].Name = <<98>>
    /\ table.Columns[2].IsNullable
    /\ LinesOfKind(emitted[1].code, "field")[1].tag = <<97, 95, 98>>
    /\ LinesOfKind(emitted[1].code, "field")[1].name = <<65, 66>>

\* C9: collectImports returns exactly the one import "time" when some column
\* has raw type datetime, timestamp, date or time, however many there are and
\* nullable or not, and no import otherwise.
C9_OnlyTimeImport ==
    \A r \in 1..Len(emitted) :
        emitted[r].imports = (IF HasTimeColumn(table) THEN <<"time">> ELSE <<>>)

C9_Witness ==
    /\ Len(emitted) > 0
    /\ Len(table.Columns) = 2
    /\ table.Columns[1].DataType = "datetime" /\ table.Columns[1].IsNullable
    /\ table.Columns[2].DataType = "date" /\ ~table.Columns[2].IsNullable
    /\ emitted[1].imports = <<"time">>

IsSortedImports(imps) ==
    \A i, j \in 1..Len(imps) : i < j => PathRank(imps[i]) <= PathRank(imps[j])

\* C10: for a given table and package name every run of generateStruct lists
\* the imports in the same, lexicographic, order: no two runs differ in it.
C10_ImportOrderStable ==
    \A r1, r2 \in 1..Len(emitted) :
        /\ ImportsOf(emitted[r1].code) = ImportsOf(emitted[r2].code)
        /\ IsSortedImports(ImportsOf(emitted[r1].code))

C10_Witness ==
    /\ Len(emitted) >= 2
    /\ HasTimeColumn(table)
    /\ \E i \in 1..Len(table.Columns) :
          table.Columns[i].DataType = "datetime" /\ table.Columns[i].IsNullable
    /\ ImportsOf(emitted[2].code) = <<"time">>

(***************************************************************************)
(* Properties of Generate (checked under SpecGen and SpecMain)             *)
(***************************************************************************)
\* the files Generate can write for a table: the formatted text for every
\* order of the imports
RenderedFiles(gen, name) ==
    { FileWith(FormatSource(generateStruct(gen.packageName,
                                           GetTableSchema(name), imps)).text) :
        imps \in collectImports(GetTableSchema(name)) }

\* whether the text emitted for a table passes the formatter
Formats(gen, name) ==
    \A imps \in collectImports(GetTableSchema(name)) :
        FormatSource(generateStruct(gen.packageName,
                                    GetTableSchema(name), imps)).ok

TargetFile == files[FileName(lastCall.name)]

ForcedOnExisting == lastCall.called /\ g.force /\ lastCall.before.exists

\* C3 as stated: with force = true and an existing target file, the file is
\* overwritten with the rendered text and Generate returns no error, with or
\* without a confirmation function; the function is never invoked.
C3_ForceAlwaysOverwrites ==
    ForcedOnExisting =>
        /\ lastCall.err = NoError
        /\ TargetFile \in RenderedFiles(g, lastCall.name)
        /\ lastCall.confirmCalls = 0

\* C3 as amended: with force = true and an existing target file the
\* confirmation function is never invoked; if the text formats and the write
\* succeeds the file holds the rendered text and no error is returned; if the
\* text does not format the format error is returned and the file is
\* unchanged; if the write fails the write error is returned.
C3_ForceOverwritesUnlessError ==
    ForcedOnExisting =>
        /\ lastCall.confirmCalls = 0
        /\ (Formats(g, lastCall.name) /\ lastCall.write.kind = "ok") =>
              /\ lastCall.err = NoError
              /\ TargetFile \in RenderedFiles(g, lastCall.name)
        /\ ~Formats(g, lastCall.name) =>
              /\ lastCall.err.kind = "format"
              /\ TargetFile = lastCall.before
        /\ (Formats(g, lastCall.name) /\ lastCall.write.kind # "ok") =>
              lastCall.err = WriteError

C3_Witness ==
    /\ ForcedOnExisting
    /\ g.hasConfirm
    /\ ~lastCall.answer
    /\ lastCall.name = ABTable
    /\ lastCall.before = ExistingContent
    /\ lastCall.err = NoError
    /\ TargetFile \in RenderedFiles(g, ABTable)
    /\ TargetFile # ExistingContent

DeclinedOnExisting ==
    /\ lastCall.called
    /\ ~g.force
    /\ g.hasConfirm
    /\ ~lastCall.answer
    /\ lastCall.before.exists

LastLine == report[Len(report)].line

\* C4 as stated: with force = false, a confirmation function that returns
\* false and an existing target file, the file is as it was before the call,
\* Generate returns ErrSkipped and the batch caller reports the table as
\* skipped.
C4_DeclineSkips ==
    DeclinedOnExisting =>
        /\ TargetFile = lastCall.before
        /\ lastCall.err = ErrSkipped
        /\ LastLine = "skipped"

\* C4 as amended: in that configuration the file is as it was before the
\* call; if the emitted text formats, Generate returns ErrSkipped and the
\* batch caller reports the table as skipped; if it does not format, the
\* confirmation function is not asked, Generate returns the format error and
\* the table is reported as an error.
C4_DeclineSkipsIfFormatted ==
    DeclinedOnExisting =>
        /\ TargetFile = lastCall.before
        /\ Formats(g, lastCall.name) =>
              /\ lastCall.err = ErrSkipped
              /\ lastCall.confirmCalls = 1
              /\ LastLine = "skipped"
        /\ ~Formats(g, lastCall.name) =>
              /\ lastCall.err.kind = "format"
              /\ lastCall.confirmCalls = 0
              /\ LastLine = "error"

C4_Witness ==
    /\ DeclinedOnExisting
    /\ pc = "loop"
    /\ lastCall.name = CamelTable
    /\ lastCall.before = ExistingContent
    /\ files[FileName(CamelTable)] = ExistingContent
    /\ lastCall.err = ErrSkipped
    /\ report[Len(report)] = [name |-> CamelTable, line |-> "skipped"]

\* the case in which the confirmation function is to be asked
ConfirmDue ==
    /\ lastCall.before.exists
    /\ ~g.force
    /\ g.hasConfirm
    /\ Formats(g, lastCall.name)

\* C5 as stated: a call of Generate invokes the confirmation function exactly
\* once if the target file exists, force is false and a function is
\* configured, and not at all otherwise (file absent, force set, formatting
\* failed); when it is invoked and returns true the file is overwritten with
\* the rendered text.
C5_ConfirmOnceThenOverwrite ==
    lastCall.called =>
        /\ lastCall.confirmCalls = (IF ConfirmDue THEN 1 ELSE 0)
        /\ (lastCall.confirmCalls = 1 /\ lastCall.answer) =>
              TargetFile \in RenderedFiles(g, lastCall.name)

\* C5 as amended: the confirmation function is invoked exactly once if the
\* target file exists, force is false, a function is configured and the text
\* formats, and not at all otherwise; when it is invoked and returns true the
\* write is attempted: the file holds the rendered text if the write
\* succeeds, and Generate returns the write error if it does not.
C5_ConfirmOnceThenWrite ==
    lastCall.called =>
        /\ lastCall.confirmCalls = (IF ConfirmDue THEN 1 ELSE 0)
        /\ (lastCall.confirmCalls = 1 /\ lastCall.answer) =>
              IF lastCall.write.kind = "ok"
              THEN /\ lastCall.err = NoError
                   /\ TargetFile \in RenderedFiles(g, lastCall.name)
              ELSE lastCall.err = WriteError

C5_Witness ==
    /\ lastCall.called
    /\ ConfirmDue
    /\ lastCall.confirmCalls = 1
    /\ lastCall.answer
    /\ lastCall.write.kind = "ok"
    /\ lastCall.before = ExistingContent
    /\ lastCall.name = UnknownTable
    /\ TargetFile \in RenderedFiles(g, UnknownTable)

(***************************************************************************)
(* The write of the target file                                            *)
(***************************************************************************)
\* C11: after any call of Generate, successful or failed at any step (a
\* failure during the write included), the target file holds the complete
\* rendered and formatted text or is exactly as it was before the call.
C11_AllOrNothing ==
    lastCall.called =>
        \/ TargetFile \in RenderedFiles(g, lastCall.name)
        \/ TargetFile = lastCall.before

(***************************************************************************)
(* The formatter rejecting the emitted text                                *)
(***************************************************************************)
\* the texts generateStruct can emit for a table, one per order of the imports
EmittedTexts(gen, name) ==
    { generateStruct(gen.packageName, GetTableSchema(name), imps) :
        imps \in collectImports(GetTableSchema(name)) }

FormatRejected == lastCall.called /\ dirExists /\ ~Formats(g, lastCall.name)

\* C12: when the formatter rejects the emitted text, Generate returns an
\* error of the formatting kind that carries the raw emitted text, the target
\* file is neither created nor modified, and the confirmation function is not
\* invoked; what a call writes to the file is never the unformatted text, only
\* the formatted text or a part of it.
C12_FormatFailureWritesNothing ==
    /\ FormatRejected =>
          /\ lastCall.err.kind = "format"
          /\ lastCall.err.code \in EmittedTexts(g, lastCall.name)
          /\ TargetFile = lastCall.before
          /\ lastCall.confirmCalls = 0
    /\ (lastCall.called /\ TargetFile # lastCall.before) =>
          \E r \in RenderedFiles(g, lastCall.name) :
              /\ Len(TargetFile.lines) <= Len(r.lines)
              /\ TargetFile.lines = SubSeq(r.lines, 1, Len(TargetFile.lines))

C12_Witness ==
    /\ FormatRejected
    /\ lastCall.name = DashTable
    /\ g.hasConfirm
    /\ ~g.force
    /\ lastCall.answer
    /\ lastCall.before = ExistingContent
    /\ TargetFile = ExistingContent
    /\ lastCall.err.kind = "format"

(***************************************************************************)
(* The batch loop of main                                                  *)
(***************************************************************************)
\* the tables attempted so far are the first idx - 1 of the list, each with
\* one line of output, in list order
AttemptedInOrder ==
    /\ idx \in 1..(Len(tables) + 1)
    /\ Len(report) = idx - 1
    /\ \A i \in 1..Len(report) : report[i].name = tables[i]

\* an iteration of the loop moves to the next table and stays in the loop
LoopAdvances ==
    (pc = "loop" /\ idx <= Len(tables)) =>
        /\ idx' = idx + 1
        /\ pc' = "loop"
        /\ tables' = tables

\* C13: in a batch run every table of the list is attempted exactly once and
\* in list order, whatever the outcome of the tables before it (metadata
\* error, directory, formatting or write error, skip), and the run always
\* reaches its end after the last table.
C13_EveryTableOnceInOrder ==
    /\ [](pc \in {"loop", "done"} => AttemptedInOrder)
    /\ [](pc = "done" => Len(report) = Len(tables))
    /\ [][LoopAdvances]_vars
    /\ (pc = "loop" ~> pc = "done")

C13_Witness ==
    /\ pc = "done"
    /\ exitCode = 0
    /\ ~g.force
    /\ tables = <<DashTable, ABTable, CamelTable>>
    /\ report = << [name |-> DashTable, line |-> "error"],
                   [name |-> ABTable, line |-> "schema_error"],
                   [name |-> CamelTable, line |-> "skipped"] >>

(***************************************************************************)
(* The unsigned flag from the reader to the emitted field                  *)
(***************************************************************************)
\* C14: the reader gives every column an unsigned flag that is true exactly
\* when the database column is declared UNSIGNED, so that reader and emitter
\* together give a non-nullable integer column declared UNSIGNED the unsigned
\* Go type of the mapping table (bigint: uint64) and a signed one the signed
\* type.
C14_UnsignedThroughPipeline ==
    (lastCall.called /\ lastCall.err = NoError) =>
        LET rows == DatabaseRows(lastCall.name)
            cols == GetTableSchema(lastCall.name).Columns
            fields == LinesOfKind(TargetFile.lines, "field")
        IN  /\ Len(cols) = Len(rows)
            /\ Len(fields) = Len(rows)
            /\ \A i \in 1..Len(rows) :
                  /\ cols[i].IsUnsigned = rows[i].unsigned
                  /\ (rows[i].dataType \in IntegerFamilies
                        /\ rows[i].isNullable = "NO") =>
                        \E m \in MappingTable :
                            /\ m[1] = rows[i].dataType
                            /\ fields[i].text =
                                 (IF rows[i].unsigned THEN m[3] ELSE m[2])

(***************************************************************************)
(* Raw types outside the mapping table                                     *)
(***************************************************************************)
\* C15: mysqlTypeToGo returns a type for every input, and for a raw type
\* that is not one of the lowercase names of the mapping table (the empty
\* string, an upper or mixed case spelling, a name with a length suffix) it
\* returns string when not nullable and *string when nullable, whatever the
\* unsigned flag.
C15_UnknownTypeIsString ==
    /\ TypeCalled =>
          typeOut \in { m[k] : m \in MappingTable, k \in 2..3 }
                      \cup { "*" \o m[k] : m \in MappingTable, k \in 2..3 }
    /\ (TypeCalled /\ typeIn.dataType \notin { m[1] : m \in MappingTable }) =>
          /\ typeOut = (IF typeIn.nullable THEN "*string" ELSE "string")
          /\ typeOut = mysqlTypeToGo(typeIn.dataType, typeIn.nullable,
                                     ~typeIn.unsigned)

C15_Witness ==
    /\ typeIn = [dataType |-> "BIGINT", nullable |-> TRUE, unsigned |-> TRUE]
    /\ typeOut = "*string"

(***************************************************************************)
(* The exit code of the command                                            *)
(***************************************************************************)
Ended == pc \in {"exit", "done"}

\* the run ended because -db or -o is missing, the connection failed or the
\* table list could not be fetched
FatalError ==
    /\ pc = "exit"
    /\ LastLine \in { "Error: -db is required", "Error: -o is required",
                      "Error connecting to database", "Error getting tables" }

\* the run ended in flag.Parse
FlagError == pc = "exit" /\ LastLine = "flag error"

HelpAsked == pc = "exit" /\ LastLine = "usage"

\* no table was attempted: no call of Generate, no line of output but the
\* message
NothingGenerated ==
    /\ lastCall = NoCall
    /\ tables = <<>>
    /\ idx = 1
    /\ Len(report) = 1

\* the step that ends the run early leaves the output directory alone
ExitTouchesNothing == (pc' = "exit") => UNCHANGED <<dirExists, files>>

\* C16 as stated: the run ends with a non-zero exit code exactly when a
\* required parameter is missing, the connection fails or the table list
\* cannot be fetched, and then nothing was generated; every other run ends
\* with exit code 0.
C16_ExitCodePolicy ==
    Ended =>
        /\ (exitCode # 0) <=> FatalError
        /\ FatalError => NothingGenerated

\* C16 as amended: the run ends with a non-zero exit code exactly when the
\* command line is rejected by flag.Parse (code 2), a required parameter is
\* missing, the connection fails or the table list cannot be fetched (code
\* 1); in those cases, and when the help is asked for, no directory is
\* created and no table is generated; every other run ends with exit code 0
\* whatever the tables' outcomes.
C16_ExitCodePolicyWithFlags ==
    /\ [](Ended =>
            /\ (exitCode # 0) <=> (FatalError \/ FlagError)
            /\ FatalError => exitCode = 1
            /\ FlagError => exitCode = 2
            /\ pc = "exit" => NothingGenerated
            /\ HelpAsked => exitCode = 0
            /\ pc = "done" => exitCode = 0)
    /\ [][ExitTouchesNothing]_vars

C16_Witness ==
    /\ pc = "done"
    /\ exitCode = 0
    /\ ~dirExists
    /\ tables = <<ABTable, DashTable, CamelTable>>
    /\ report = << [name |-> ABTable, line |-> "error"],
                   [name |-> DashTable, line |-> "error"],
                   [name |-> CamelTable, line |-> "schema_error"] >>

(***************************************************************************)
(* Two calls of Generate in succession                                     *)
(***************************************************************************)
\* a step that is a second call of Generate for the table of the call
\* before it, under force
SecondForcedCall ==
    /\ lastCall.called
    /\ g.force
    /\ lastCall'.called
    /\ lastCall'.name = lastCall.name
    /\ g' = g

\* C17 as stated: two calls of Generate in succession with force = true for
\* the same table and package name both succeed, and the target file has the
\* same contents after the first and after the second call.
C17_ForceTwiceIdentical ==
    [][SecondForcedCall =>
          /\ lastCall.err = NoError
          /\ lastCall'.err = NoError
          /\ TargetFile' = TargetFile]_vars

\* C17 as amended: each of the two calls succeeds exactly when the output
\* directory is there or can be created, the emitted text passes the
\* formatter and the write succeeds; when both calls succeed the target file
\* has the same contents, the rendered text, after the first and after the
\* second call.
C17_ForceTwiceIdenticalIfBothSucceed ==
    [][SecondForcedCall =>
          /\ (lastCall'.err = NoError) <=>
                /\ dirExists'
                /\ Formats(g, lastCall.name)
                /\ lastCall'.write.kind = "ok"
          /\ (lastCall.err = NoError /\ lastCall'.err = NoError) =>
                /\ TargetFile' = TargetFile
                /\ TargetFile' \in RenderedFiles(g, lastCall.name)]_vars

C17_Witness ==
    /\ lastCall.called
    /\ g.force
    /\ lastCall.name = ABTable
    /\ lastCall.err = NoError
    /\ lastCall.before \in RenderedFiles(g, ABTable)
    /\ TargetFile = lastCall.before

(***************************************************************************)
(* Generate without force and without a confirmation function              *)
(***************************************************************************)
\* a step that is a call of Generate by a generator built without WithForce
\* and without WithConfirmFunc
UnconfiguredCall == lastCall'.called /\ ~g.force /\ ~g.hasConfirm /\ g' = g

\* the step is one that the same generator with force set can take from the
\* same directory, with the same result
AsIfForced ==
    LET forced == [g EXCEPT !.force = TRUE]
        t == GetTableSchema(lastCall'.name)
    IN  \E env \in GenerateEnvs(forced, t, dirExists, files) :
            LET res == Generate(forced, t, dirExists, files, env)
            IN  /\ res.dir = dirExists'
                /\ res.files = files'
                /\ CallRecord(forced, t, files, env, res) = lastCall'

\* C18: with force = false and no confirmation function, Generate treats an
\* existing target file exactly as it does with force set: it is overwritten
\* with the rendered text whenever a forced call would overwrite it, and
\* Generate never returns ErrSkipped.
C18_ImplicitForce ==
    [][UnconfiguredCall =>
          /\ AsIfForced
          /\ lastCall'.err # ErrSkipped
          /\ lastCall'.confirmCalls = 0
          /\ (lastCall'.err = NoError) =>
                TargetFile' \in RenderedFiles(g, lastCall'.name)]_vars

C18_Witness ==
    /\ lastCall.called
    /\ ~g.force
    /\ ~g.hasConfirm
    /\ lastCall.name = CamelTable
    /\ lastCall.before = ExistingContent
    /\ lastCall.err = NoError
    /\ TargetFile \in RenderedFiles(g, CamelTable)
    /\ TargetFile # ExistingContent

(***************************************************************************)
(* The target files of the tables of one run                               *)
(***************************************************************************)
PairwiseDistinct(seq) ==
    \A i, j \in 1..Len(seq) : i # j => seq[i] # seq[j]

\* the tables before the last one attempted for which the run wrote a file
GeneratedBefore ==
    { i \in 1..(Len(report) - 1) : report[i].line = "generated" }

\* C19: in a batch run over pairwise distinct table names no two tables have
\* the same target file (toSnakeCase(name) + ".go" in the output directory):
\* a table for which Generate is called never targets the file the run
\* generated for an earlier table, so that file is neither overwritten nor
\* the subject of a confirmation.
C19_DistinctTablesDistinctFiles ==
    (pc = "loop" /\ PairwiseDistinct(tables) /\ lastCall.called) =>
        \A i \in GeneratedBefore :
            /\ report[i].name # lastCall.name
            /\ FileName(report[i].name) # FileName(lastCall.name)

(***************************************************************************)
(* The field names of one declaration                                      *)
(***************************************************************************)
\* C20: within one table pairwise distinct column names yield pairwise
\* distinct field names: the emitted declaration has no two fields of the
\* same name.
C20_DistinctColumnsDistinctFields ==
    \A r \in 1..Len(emitted) :
        LET fields == LinesOfKind(emitted[r].code, "field")
            names == [i \in 1..Len(table.Columns) |-> table.Columns[i].Name]
        IN  PairwiseDistinct(names) =>
                /\ Len(fields) = Len(names)
                /\ PairwiseDistinct([i \in 1..Len(fields) |-> fields[i].name])

(***************************************************************************)
(* toSnakeCase after toCamelCase                                           *)
(***************************************************************************)
\* an identifier of lowercase letters and single underscores, none leading
\* or trailing: every underscore-separated segment is a non-empty run of
\* lowercase letters
IsLowerSnake(s) ==
    LET parts == Split(s)
    IN  \A i \in 1..Len(parts) :
            /\ parts[i] # <<>>
            /\ \A k \in 1..Len(Runes(parts[i])) : IsLower(Runes(parts[i])[k])

\* C21: for every identifier s of lowercase letters and single underscores
\* with no leading or trailing underscore, toSnakeCase(toCamelCase(s)) = s,
\* and the output file name of a table named s is s followed by ".go".
C21_SnakeOfCamelIsIdentity ==
    (caseFn = "toSnakeCase(toCamelCase)" /\ IsLowerSnake(caseIn)) =>
        /\ caseOut = caseIn
        /\ FileName(caseIn) = caseIn \o GoSuffix

====
